---- MODULE Spec2Model ----
(***************************************************************************)
(* Model of the wireUtil register access engine (utility/wireUtil.h) and   *)
(* of the ADS1x15 device profile built on it (ADS1x15.h, ADS1x15.cpp).     *)
(*                                                                         *)
(* An unsigned C integer of w bytes is a tuple of w numbers 0..255, its    *)
(* base-256 digits with the least significant first.  TLC's integers are   *)
(* 32 bit signed, so a uint32_t or the unsigned long of millis() cannot be *)
(* a TLC number; as digit tuples they keep their real width.  Bytes on the *)
(* bus are numbers 0..255 and Wire.read() is an int in -1..255.            *)
(***************************************************************************)
EXTENDS Integers, Sequences, FiniteSets, TLC

\* ------------------------------------------------------------------------
\* Bounds of the model
\* ------------------------------------------------------------------------
\* Largest small element count passed to readRegisters / writeRegisters.
MaxLen == 2
\* The large element count: BigLen words of 4 bytes need 256 bytes or more.
BigLen == 64
\* Number of times the millisecond clock is seen to advance during one read.
MaxTicks == 2
\* Number of calls of the public operations in one behaviour.
MaxCalls == 2

\* ------------------------------------------------------------------------
\* Fixed-width unsigned arithmetic on digit tuples
\* ------------------------------------------------------------------------
\* The w-byte integer of a number 0 <= n < 2^31 (truncating to w bytes).
U(n, w) ==
    [i \in 1..w |-> (n \div (256 ^ (i - 1))) % 256]

\* ~a
Not(a) ==
    [i \in DOMAIN a |-> 255 - a[i]]

\* Conversion of a C int (two's complement) to an unsigned type of w bytes.
Cast(n, w) ==
    IF n >= 0 THEN U(n, w) ELSE Not(U((0 - n) - 1, w))

RECURSIVE OrByte(_, _)
OrByte(x, y) ==
    IF x = 0 THEN y
    ELSE IF y = 0 THEN x
    ELSE (IF x % 2 = 1 \/ y % 2 = 1 THEN 1 ELSE 0) + 2 * OrByte(x \div 2, y \div 2)

RECURSIVE AndByte(_, _)
AndByte(x, y) ==
    IF x = 0 \/ y = 0 THEN 0
    ELSE (IF x % 2 = 1 /\ y % 2 = 1 THEN 1 ELSE 0) + 2 * AndByte(x \div 2, y \div 2)

\* a | b and a & b
Or(a, b) ==
    [i \in DOMAIN a |-> OrByte(a[i], b[i])]

And(a, b) ==
    [i \in DOMAIN a |-> AndByte(a[i], b[i])]

\* Digit i of a, zero outside the integer.
Digit(a, i) ==
    IF i \in DOMAIN a THEN a[i] ELSE 0

\* a << k and a >> k (k bits) within the width of a.
Shl(a, k) ==
    LET q == k \div 8
        r == k % 8
    IN  [i \in DOMAIN a |->
            ((Digit(a, i - q) * (2 ^ r)) % 256)
            + (Digit(a, i - q - 1) \div (2 ^ (8 - r)))]

Shr(a, k) ==
    LET q == k \div 8
        r == k % 8
    IN  [i \in DOMAIN a |->
            (Digit(a, i + q) \div (2 ^ r))
            + ((Digit(a, i + q + 1) * (2 ^ (8 - r))) % 256)]

\* TRUE when the most significant bit of a is set.
TopBit(a) ==
    a[Len(a)] >= 128

\* Conversion of a signed integer pattern to w bytes: truncation, or sign
\* extension when w is larger.
SignConvert(a, w) ==
    [i \in 1..w |-> IF i <= Len(a) THEN a[i] ELSE IF TopBit(a) THEN 255 ELSE 0]

RECURSIVE ValUpTo(_, _)
ValUpTo(a, n) ==
    IF n = 0 THEN 0 ELSE a[n] * (256 ^ (n - 1)) + ValUpTo(a, n - 1)

\* The number an integer of at most three bytes stands for.
Val(a) ==
    ValUpTo(a, Len(a))

\* d & 0xFF as a byte value.
And255(a) ==
    a[1]

\* Carry into digit i of a + b.
RECURSIVE Carry(_, _, _)
Carry(a, b, i) ==
    IF i = 1 THEN 0 ELSE (a[i - 1] + b[i - 1] + Carry(a, b, i - 1)) \div 256

\* a + b modulo 2^width (unsigned overflow wraps).
Add(a, b) ==
    [i \in DOMAIN a |-> (a[i] + b[i] + Carry(a, b, i)) % 256]

\* a < b as unsigned numbers.
Lt(a, b) ==
    \E i \in DOMAIN a :
        /\ a[i] < b[i]
        /\ \A j \in DOMAIN a : j > i => a[j] = b[j]

\* ------------------------------------------------------------------------
\* Program constants
\* ------------------------------------------------------------------------
CONVERSION_REG == 0
CONFIG_REG == 1
\* ADS1x15_OS = 1 << 15, ADS1x15_MUX_MASK = 0x07 << 12, as numbers.
ADS1x15_OS == 32768
ADS1x15_MUX_MASK == 28672
defaultConfig == 34179
ADS1x15_GAIN_MASK == 3584
ADS1x15_DR_MASK == 224
ADS1x15_COMP_MODE_MASK == 16
ADS1x15_COMP_POL_MASK == 8
ADS1x15_COMP_LAT_MASK == 4
\* currentGain = GAIN_2 in the ADS1x15 constructor.
GAIN_2 == 1024
\* ADS1115_DR_128 and ADS1015_DR_1600, the rates the constructors set.
DefaultDataRate == 128
\* timeoutTime = 1000UL in the ADS1x15 constructor.
DefaultTimeout == 1000
\* getFullScaleBits() of the two chips: 0x07FF and 0x7FFF.
FullScale1015 == 2047
FullScale1115 == 32767
\* conversionDelay after the constructors' setDataRate(ADS1015_DR_1600) and
\* setDataRate(ADS1115_DR_128).
Delay1015 == 1025
Delay1115 == 8213

\* ADS1x15_MUX_t: DIF01 .. SE3 are 0..7 shifted to bits 12..14.
MuxValues ==
    {m * 4096 : m \in 0..7}

\* SE0..SE3 = (0x4 + ch) << 12.
SE(ch) ==
    (4 + ch) * 4096

\* ------------------------------------------------------------------------
\* The platform's Wire receive buffer, as the sequence of bytes available
\* ------------------------------------------------------------------------
\* Wire.available()
WireAvailable(rx) ==
    Len(rx)

\* Wire.read(): the next available byte, or -1 when none is available.
WireRead(rx) ==
    IF Len(rx) = 0 THEN -1 ELSE Head(rx)

\* The receive buffer after one Wire.read().
WireAfterRead(rx) ==
    IF Len(rx) = 0 THEN rx ELSE Tail(rx)

\* ------------------------------------------------------------------------
\* wireUtil: serialisation
\* ------------------------------------------------------------------------
\* A variant of writeAsBytes that fills the byte array from the low end,
\* buffer[0] holding the least significant byte.
writeAsBytesLowFirst(d, w) ==
    [i \in 1..w |-> d[i]]

\* writeAsBytes(d): the bytes handed to Wire.write(buffer, sizeof(DATATYPE)),
\* buffer[0] first.
writeAsBytes(d, w) ==
    CASE w = 4 ->
            LET b3 == And255(d)
                d1 == Shr(d, 8)
                b2 == And255(d1)
                d2 == Shr(d1, 8)
                b1 == And255(d2)
                d3 == Shr(d2, 8)
                b0 == And255(d3)
            IN  <<b0, b1, b2, b3>>
      [] w = 2 ->
            LET b1 == And255(d)
                b0 == And255(Shr(d, 8))
            IN  <<b0, b1>>
      [] w = 1 -> <<Val(d)>>
      [] OTHER -> [i \in 1..w |-> 0]

\* The bytes one element adds to the transaction in writeRegisters: a raw
\* Wire.write(buffer[i]) for one-byte words, writeAsBytes otherwise.
ElementBytes(d, w) ==
    IF w = 1 THEN <<Val(d)>> ELSE writeAsBytes(d, w)

\* The bytes of the write transaction of writeRegisters(reg, buffer, len):
\* the register address, then the first len elements of buffer in order.
RECURSIVE TxBytes(_, _, _, _)
TxBytes(reg, buffer, len, w) ==
    IF len = 0
    THEN <<reg>>
    ELSE TxBytes(reg, buffer, len - 1, w) \o ElementBytes(buffer[len], w)

\* A variant of readAsBytes that takes the first byte read as the least
\* significant one.
readAsBytesLowFirst(rx, w) ==
    [d |-> [i \in 1..w |-> IF i <= Len(rx) THEN rx[i] ELSE 255],
     rx |-> IF Len(rx) <= w THEN <<>> ELSE SubSeq(rx, w + 1, Len(rx))]

\* readAsBytes(): the word assembled from successive Wire.read() results and
\* the receive buffer left behind.  Wire.read() is an int; each is converted
\* to the unsigned type named in the cast before it is shifted.
readAsBytes(rx, w) ==
    LET r0 == WireRead(rx)
        rx1 == WireAfterRead(rx)
        r1 == WireRead(rx1)
        rx2 == WireAfterRead(rx1)
        r2 == WireRead(rx2)
        rx3 == WireAfterRead(rx2)
        r3 == WireRead(rx3)
        rx4 == WireAfterRead(rx3)
    IN  CASE w = 4 ->
                [d |-> Or(Or(Or(Shl(Cast(r0, 4), 24), Shl(Cast(r1, 4), 16)),
                             Shl(Cast(r2, 4), 8)),
                          Cast(r3, 4)),
                 rx |-> rx4]
          [] w = 2 ->
                [d |-> Or(Shl(Cast(r0, 2), 8), Cast(r1, 2)), rx |-> rx2]
          [] w = 1 ->
                [d |-> Cast(r0, 1), rx |-> rx1]
          [] OTHER ->
                [d |-> U(0, w), rx |-> rx]

\* One element read in readRegister / readRegisters: a raw Wire.read() for
\* one-byte words, readAsBytes otherwise.
ReadElement(rx, w) ==
    IF w = 1
    THEN [d |-> Cast(WireRead(rx), 1), rx |-> WireAfterRead(rx)]
    ELSE readAsBytes(rx, w)

\* The loop "for (i = 0; i < len; i++) buffer[i] = ..." of readRegisters,
\* from element i on: the buffer filled and the receive buffer left.
RECURSIVE ReadLoop(_, _, _, _, _)
ReadLoop(rx, w, i, len, buffer) ==
    IF i > len
    THEN [buffer |-> buffer, rx |-> rx]
    ELSE LET e == ReadElement(rx, w)
         IN  ReadLoop(e.rx, w, i + 1, len, [buffer EXCEPT ![i] = e.d])

\* A variant of the memset that clears len bytes, not len elements.
Memset0Bytes(buffer, bufferSize, w) ==
    [i \in DOMAIN buffer |->
        IF i * w <= bufferSize \div w THEN U(0, w) ELSE buffer[i]]

\* memset(buffer, 0, bufferSize) on an array of w-byte elements.
Memset0(buffer, bufferSize, w) ==
    [i \in DOMAIN buffer |->
        IF i * w <= bufferSize THEN U(0, w) ELSE buffer[i]]

\* (uint8_t) bufferSize: the byte count handed to Wire.requestFrom.
RequestCount(bufferSize) ==
    bufferSize % 256

\* ------------------------------------------------------------------------
\* wireUtil: setRegisterBit's mask
\* ------------------------------------------------------------------------
\* The values (DATATYPE)(1 << bit) can take.  1 is an int of intBits bits:
\* up to the sign bit the shift is done in int (onto the sign bit it yields
\* INT_MIN) and the int is then converted to DATATYPE, sign-extending when
\* DATATYPE is wider; a shift by intBits or more is undefined, and the builds
\* either yield 0 or shift by bit modulo the width of int.
BitMasks(bit, w, intBits) ==
    LET one == U(1, intBits \div 8)
    IN  IF bit < intBits
        THEN {SignConvert(Shl(one, bit), w)}
        ELSE {U(0, w), SignConvert(Shl(one, bit % intBits), w)}

\* tempReg after "if (state) tempReg |= mask; else tempReg &= ~mask;".
ApplyBit(tempReg, mask, state) ==
    IF state THEN Or(tempReg, mask) ELSE And(tempReg, Not(mask))

\* ------------------------------------------------------------------------
\* ADS1x15: conversion result
\* ------------------------------------------------------------------------
\* shiftConversion(c): c >> 4 on the ADS1015, c on the ADS1115.
shiftConversion(c, chipName) ==
    IF chipName = "ADS1015" THEN Shr(c, 4) ELSE c

getFullScaleBits(chipName) ==
    IF chipName = "ADS1015" THEN FullScale1015 ELSE FullScale1115

\* (int16_t) of a 16-bit pattern, as a number.
Int16(a) ==
    Val(a) - (IF TopBit(a) THEN 65536 ELSE 0)

\* The int16_t analogRead(ADS1x15_MUX_t) returns for the word c read from the
\* conversion register.
ConversionResult(c, chipName) ==
    LET result == shiftConversion(c, chipName)
    IN  IF Val(result) > getFullScaleBits(chipName)
        THEN Int16(Or(result, U(ADS1x15_OS, 2)))
        ELSE Int16(result)

\* uint16_t analogRead(uint8_t) returns the int16_t converted to uint16_t.
AsUint16(n) ==
    Val(Cast(n, 2))

\* configRegister after the three assignments at the top of analogRead.
ConfigForRead(config, mux) ==
    Or(Or(And(config, Not(U(ADS1x15_MUX_MASK, 2))), U(mux, 2)),
       U(ADS1x15_OS, 2))

\* ------------------------------------------------------------------------
\* State
\* ------------------------------------------------------------------------
VARIABLES
    W,               \* sizeof(DATATYPE) of the instantiation: 1, 2 or 4
    IntBits,         \* width of int on the build: 16 (AVR) or 32
    chip,            \* "wireUtil" (the bare engine), "ADS1015" or "ADS1115"
    epoch,           \* what millis() shows when a read computes its deadline
    timeoutTime,     \* unsigned long timeoutTime
    timeoutFlag,     \* bool timeoutFlag
    timeOutHandler,  \* TRUE when timeOutHandler != NULL
    errorHandler,    \* TRUE when errorHandler != NULL
    configRegister,  \* ADS1x15::configRegister
    conversionDelay, \* ADS1x15::conversionDelay, microseconds
    now,             \* millis()
    rx,              \* bytes available in Wire's receive buffer
    pending,         \* bytes the device has still to deliver for the request
    dev,             \* the addressed device: its registers and register pointer
    pc,              \* "idle" between calls, "poll" inside a read's wait loop
    frame,           \* the locals of the read that is polling
    call,            \* the public call in progress or last completed
    ret,             \* what the last completed call returned
    buffer,          \* the array handed to readRegisters (empty in other calls)
    obs,             \* what the current call did on the bus and to the handlers
    prev,            \* the completed call before this one, where a claim needs it
    lastRead,        \* how the most recent read attempt ended
    elapsed,         \* milliseconds since the polling read computed its deadline
    ticks,           \* clock advances seen by the polling read
    calls,           \* public calls made so far
    latest           \* the value the constructor or a setter last gave each
                     \* field of the config word

vars ==
    <<W, IntBits, chip, epoch, timeoutTime, timeoutFlag, timeOutHandler,
      errorHandler, configRegister, conversionDelay, now, rx, pending, dev, pc,
      frame, call, ret, buffer, obs, prev, lastRead, elapsed, ticks, calls,
      latest>>

build ==
    <<W, IntBits, chip, epoch>>

handlers ==
    <<timeOutHandler, errorHandler>>

adc ==
    <<configRegister, conversionDelay>>

clock ==
    <<now, elapsed, ticks>>

\* ------------------------------------------------------------------------
\* Input samples
\* ------------------------------------------------------------------------
Widths ==
    {1, 2, 4}

Regs ==
    {CONVERSION_REG, CONFIG_REG}

\* 0x12, 0x1234, 0x12345678
Canonical(w) ==
    CASE w = 1 -> 18
      [] w = 2 -> 4660
      [] OTHER -> 305419896

AllOnes(w) ==
    Not(U(0, w))

\* Register words written by callers, and what a caller's array holds
\* before readRegisters.
Words(w) ==
    {U(Canonical(w), w), AllOnes(w)}

\* Register contents of the device at start, as the bytes it sends first to
\* last.
DeviceWords(w) ==
    {[i \in 1..w |-> 0], SubSeq(<<18, 52, 86, 120>>, 1, w), [i \in 1..w |-> 255]}

\* Bit indices within the word handed to setRegisterBit.
Bits(w) ==
    {3, 8 * w - 1} \cup (IF w = 4 THEN {15, 16} ELSE {})

\* End-of-transmission status codes of Wire: 0 is success, 2 is a NACK of the
\* address, 3 a NACK of data.
Statuses ==
    {0, 2, 3}

\* The status of a transaction inside a composed operation (the address-only
\* transaction that opens a read, the write that ends setRegisterBit, the
\* config write of analogRead): acknowledged or not.
AckOrNack ==
    {0, 2}

Lens ==
    (0..MaxLen) \cup {BigLen}

\* Caller arrays of len elements: all elements equal to one sample word.
Arrays(w, len) ==
    {[i \in 1..len |-> x] : x \in Words(w)}

\* ------------------------------------------------------------------------
\* The addressed device and the bus (the platform's side of Wire)
\* ------------------------------------------------------------------------
\* The device after a write transaction of the given bytes that ended with
\* the given status.  Acknowledged, the first byte sets the register pointer
\* and each following group of W bytes is stored in the next register.
BusWrite(d, bytes, status) ==
    IF status # 0 \/ Len(bytes) = 0 \/ bytes[1] \notin Regs
    THEN d
    ELSE LET n == (Len(bytes) - 1) \div W
             group(j) == SubSeq(bytes, 2 + j * W, 1 + (j + 1) * W)
             hits(r) == {j \in 0..(n - 1) : (bytes[1] + j) % 2 = r}
             last(S) == CHOOSE j \in S : \A k \in S : k <= j
         IN  [reg |-> [r \in Regs |->
                         IF hits(r) = {} THEN d.reg[r] ELSE group(last(hits(r)))],
              ptr |-> bytes[1]]

\* The first n bytes the device sends when read from its register pointer on.
DevStream(d, n) ==
    [k \in 1..n |-> d.reg[(d.ptr + ((k - 1) \div W)) % 2][((k - 1) % W) + 1]]

\* How many of the n requested bytes the device may deliver at all: none
\* when it did not acknowledge its address; else none, all, or only one.
Deliveries(n, status) ==
    IF status # 0 THEN {0} ELSE {0, n} \cup (IF n > 1 THEN {1} ELSE {})

\* ------------------------------------------------------------------------
\* Bookkeeping of calls
\* ------------------------------------------------------------------------
NoFrame ==
    [fn |-> "none", outer |-> "none", need |-> 0, abortTime |-> U(0, 4)]

NoCall ==
    [fn |-> "none", reg |-> 0, arg |-> 0, dev0 |-> <<>>]

\* Events of a call on the platform: a write transaction ended by
\* endTransmission, a requestFrom, a delayMicroseconds.
TxEvent(bytes, stop, status) ==
    [op |-> "tx", bytes |-> bytes, stop |-> stop, status |-> status, n |-> 0]

RequestEvent(n) ==
    [op |-> "request", bytes |-> <<>>, stop |-> TRUE, status |-> 0, n |-> n]

DelayEvent(us) ==
    [op |-> "delay", bytes |-> <<>>, stop |-> TRUE, status |-> 0, n |-> us]

\* log: the events of the call in order; sent: how many bytes the device
\* delivers for the request; timedOut: the call took a timeout branch;
\* timeoutCalls, errorCalls: the handler invocations (with their argument).
NewObs ==
    [log |-> <<>>, sent |-> 0, timedOut |-> FALSE, timeoutCalls |-> 0,
     errorCalls |-> <<>>]

IsTx(e) ==
    e.op = "tx"

IsRequest(e) ==
    e.op = "request"

\* The write transactions and the read requests of a call, in order.
Transactions(o) ==
    SelectSeq(o.log, IsTx)

Requests(o) ==
    SelectSeq(o.log, IsRequest)

\* A call that met neither a timeout nor a non-zero bus status.
Clean(o) ==
    /\ ~o.timedOut
    /\ \A i \in DOMAIN o.log : o.log[i].status = 0

\* What the call now starting keeps of the call that has just completed: a
\* writeRegister that returned true when the same register is now read, and
\* a clean setRegisterBit(reg, bit, true) that was sent the whole word when
\* the same bit is now cleared.
Remember(fn, reg, arg) ==
    IF \/ /\ fn = "readRegister"
          /\ call.fn = "writeRegister"
          /\ call.reg = reg
          /\ ret = TRUE
       \/ /\ fn = "setRegisterBit"
          /\ call.fn = "setRegisterBit"
          /\ call.reg = reg
          /\ call.arg.bit = arg.bit
          /\ call.arg.state
          /\ ~arg.state
          /\ Clean(obs)
          /\ obs.sent = W
          /\ ret = TRUE
    THEN call
    ELSE NoCall

\* Start of a new public call: the previous one is remembered.
Enter(fn, reg, arg, dev0) ==
    /\ pc = "idle"
    /\ calls < MaxCalls
    /\ calls' = calls + 1
    /\ call' = [fn |-> fn, reg |-> reg, arg |-> arg, dev0 |-> dev0]
    /\ prev' = Remember(fn, reg, arg)

\* ------------------------------------------------------------------------
\* wireUtil: operations
\* ------------------------------------------------------------------------
\* A variant of writeRegisters whose only "return false" is the one inside
\* the handler branch.
writeRegistersHandlerOnly(o, d, reg, buf, len, status) ==
    LET bytes == TxBytes(reg, buf, len, W)
        o1 == [o EXCEPT !.log = Append(@, TxEvent(bytes, TRUE, status))]
    IN  IF status # 0 /\ errorHandler
        THEN [obs |-> [o1 EXCEPT !.errorCalls = Append(@, status)],
              dev |-> BusWrite(d, bytes, status),
              ret |-> FALSE]
        ELSE [obs |-> o1, dev |-> BusWrite(d, bytes, status), ret |-> TRUE]

\* writeRegisters(reg, buffer, len) when endTransmission() yields status:
\* what the call has done, the device afterwards, and the value returned.
writeRegisters(o, d, reg, buf, len, status) ==
    LET bytes == TxBytes(reg, buf, len, W)
        o1 == [o EXCEPT !.log = Append(@, TxEvent(bytes, TRUE, status))]
    IN  IF status = 0
        THEN [obs |-> o1, dev |-> BusWrite(d, bytes, status), ret |-> TRUE]
        ELSE IF errorHandler
             THEN [obs |-> [o1 EXCEPT !.errorCalls = Append(@, status)],
                   dev |-> BusWrite(d, bytes, status),
                   ret |-> FALSE]
             ELSE [obs |-> o1, dev |-> BusWrite(d, bytes, status),
                   ret |-> FALSE]

\* writeRegister(reg, data)
writeRegister(o, d, reg, data, status) ==
    writeRegisters(o, d, reg, <<data>>, 1, status)

\* The timeout branch of a read: the handler is called when one is attached.
OnTimeout(o) ==
    [o EXCEPT !.timedOut = TRUE,
              !.timeoutCalls = IF timeOutHandler THEN @ + 1 ELSE @]

\* abortTime = millis() + timeoutTime, in unsigned long.
AbortTime(t, budget) ==
    Add(t, budget)

\* abortTime < millis()
DeadlinePassed(abortTime, t) ==
    Lt(abortTime, t)

\* while (!Wire.available())
ReadRegisterWaits(avail) ==
    avail = 0

\* while (Wire.available() < bufferSize)
ReadRegistersWaits(avail, bufferSize) ==
    avail < bufferSize

\* The polling loop of the read in progress has not yet seen its data.
Waiting ==
    IF frame.fn = "readRegister"
    THEN ReadRegisterWaits(WireAvailable(rx))
    ELSE ReadRegistersWaits(WireAvailable(rx), frame.need)

\* A variant of the start of a read that leaves the flag as it finds it.
BeginReadKeepingFlag(o, d, fn, outer, reg, n, bufferSize) ==
    \E status \in AckOrNack :
        LET d1 == BusWrite(d, <<reg>>, status)
            o1 == [o EXCEPT !.log = Append(Append(@, TxEvent(<<reg>>, FALSE, status)),
                                           RequestEvent(n))]
        IN  \E k \in Deliveries(n, status) :
                /\ dev' = d1
                /\ pending' = SubSeq(DevStream(d1, n), 1, k)
                /\ rx' = <<>>
                /\ obs' = [o1 EXCEPT !.sent = k]
                /\ timeoutFlag' = timeoutFlag
                /\ frame' = [fn |-> fn, outer |-> outer, need |-> bufferSize,
                             abortTime |-> AbortTime(epoch, timeoutTime)]
                /\ now' = epoch
                /\ elapsed' = 0
                /\ ticks' = 0
                /\ pc' = "poll"

\* The part the two reads share up to their polling loop: the address-only
\* transaction without a stop, the request for n bytes, the reset of the
\* flag and the deadline.  bufferSize is the byte count the loop waits for.
BeginRead(o, d, fn, outer, reg, n, bufferSize) ==
    \E status \in AckOrNack :
        LET d1 == BusWrite(d, <<reg>>, status)
            o1 == [o EXCEPT !.log = Append(Append(@, TxEvent(<<reg>>, FALSE, status)),
                                           RequestEvent(n))]
        IN  \E k \in Deliveries(n, status) :
                /\ dev' = d1
                /\ pending' = SubSeq(DevStream(d1, n), 1, k)
                /\ rx' = <<>>
                /\ obs' = [o1 EXCEPT !.sent = k]
                /\ timeoutFlag' = FALSE
                /\ frame' = [fn |-> fn, outer |-> outer, need |-> bufferSize,
                             abortTime |-> AbortTime(epoch, timeoutTime)]
                /\ now' = epoch
                /\ elapsed' = 0
                /\ ticks' = 0
                /\ pc' = "poll"

\* bool writeRegister(REGTYPE reg, DATATYPE data)
WriteRegister ==
    \E reg \in Regs, data \in Words(W), status \in Statuses :
        /\ Enter("writeRegister", reg, data, dev.reg[reg])
        /\ LET r == writeRegister(NewObs, dev, reg, data, status)
           IN  /\ obs' = r.obs
               /\ dev' = r.dev
               /\ ret' = r.ret
        /\ buffer' = <<>>
        /\ UNCHANGED <<build, handlers, adc, latest, clock, timeoutTime, timeoutFlag,
                       rx, pending, pc, frame, lastRead>>

\* bool writeRegisters(REGTYPE reg, DATATYPE *buffer, uint8_t len)
WriteRegisters ==
    \E reg \in Regs, len \in 0..MaxLen, status \in Statuses :
        \E buf \in Arrays(W, len) :
            /\ Enter("writeRegisters", reg, buf, dev.reg[reg])
            /\ LET r == writeRegisters(NewObs, dev, reg, buf, len, status)
               IN  /\ obs' = r.obs
                   /\ dev' = r.dev
                   /\ ret' = r.ret
            /\ buffer' = <<>>
            /\ UNCHANGED <<build, handlers, adc, latest, clock, timeoutTime,
                           timeoutFlag, rx, pending, pc, frame, lastRead>>

\* DATATYPE readRegister(REGTYPE reg), up to its polling loop.
ReadRegisterCall ==
    \E reg \in Regs :
        /\ Enter("readRegister", reg, 0, dev.reg[reg])
        /\ BeginRead(NewObs, dev, "readRegister", "none", reg, W, W)
        /\ buffer' = <<>>
        /\ UNCHANGED <<build, handlers, adc, latest, timeoutTime, ret, lastRead>>

\* bool readRegisters(REGTYPE reg, DATATYPE *buffer, uint8_t len), up to its
\* polling loop; the caller's array holds the word "before" in every slot.
ReadRegistersCall ==
    \E reg \in Regs, len \in Lens, before \in Words(W) :
        LET bufferSize == len * W
        IN  /\ Enter("readRegisters", reg, [len |-> len, before |-> before],
                     dev.reg[reg])
            /\ buffer' = Memset0([i \in 1..len |-> before], bufferSize, W)
            /\ BeginRead(NewObs, dev, "readRegisters", "none", reg,
                         RequestCount(bufferSize), bufferSize)
            /\ UNCHANGED <<build, handlers, adc, latest, timeoutTime, ret, lastRead>>

\* bool setRegisterBit(REGTYPE reg, uint8_t bit, bool state), up to the
\* polling loop of its readRegister.
SetRegisterBitCall ==
    \E reg \in Regs, bit \in Bits(W), state \in BOOLEAN :
        /\ Enter("setRegisterBit", reg, [bit |-> bit, state |-> state],
                 dev.reg[reg])
        /\ BeginRead(NewObs, dev, "readRegister", "setRegisterBit", reg, W, W)
        /\ buffer' = <<>>
        /\ UNCHANGED <<build, handlers, adc, latest, timeoutTime, ret, lastRead>>

\* millis() is looked at only inside a polling loop: once the read has
\* returned, the clock stands where the next read will find it.
LeaveLoop ==
    /\ now' = epoch
    /\ elapsed' = 0
    /\ ticks' = 0

\* What follows the return of readRegister with the given value: the return
\* to the caller, or the rest of the function that called readRegister.
AfterReadRegister(value, o) ==
    /\ CASE frame.outer = "setRegisterBit" ->
                \E mask \in BitMasks(call.arg.bit, W, IntBits),
                   status \in AckOrNack :
                    LET tempReg == ApplyBit(value, mask, call.arg.state)
                        r == writeRegister(o, dev, call.reg, tempReg, status)
                    IN  /\ obs' = r.obs
                        /\ dev' = r.dev
                        /\ ret' = r.ret
         [] frame.outer = "analogRead" ->
                /\ obs' = o
                /\ dev' = dev
                /\ ret' = ConversionResult(value, chip)
         [] frame.outer = "analogReadCh" ->
                /\ obs' = o
                /\ dev' = dev
                /\ ret' = AsUint16(ConversionResult(value, chip))
         [] OTHER ->
                /\ obs' = o
                /\ dev' = dev
                /\ ret' = value
    /\ pc' = "idle"
    /\ frame' = NoFrame
    /\ pending' = <<>>
    /\ LeaveLoop
    /\ UNCHANGED <<build, handlers, adc, latest, timeoutTime, call, calls, prev, buffer>>

\* readRegister leaves its loop with data available and reads one word.
ReadRegisterData ==
    /\ pc = "poll"
    /\ frame.fn = "readRegister"
    /\ ~ReadRegisterWaits(WireAvailable(rx))
    /\ LET e == ReadElement(rx, W)
       IN  /\ rx' = e.rx
           /\ AfterReadRegister(e.d, obs)
    /\ lastRead' = "data"
    /\ UNCHANGED timeoutFlag

\* readRegister finds its deadline passed while nothing is available.
ReadRegisterTimeout ==
    /\ pc = "poll"
    /\ frame.fn = "readRegister"
    /\ ReadRegisterWaits(WireAvailable(rx))
    /\ DeadlinePassed(frame.abortTime, now)
    /\ timeoutFlag' = TRUE
    /\ AfterReadRegister(U(0, W), OnTimeout(obs))
    /\ lastRead' = "timeout"
    /\ UNCHANGED rx

\* readRegisters leaves its loop with bufferSize bytes available and fills
\* the array.
ReadRegistersData ==
    /\ pc = "poll"
    /\ frame.fn = "readRegisters"
    /\ ~ReadRegistersWaits(WireAvailable(rx), frame.need)
    /\ LET r == ReadLoop(rx, W, 1, call.arg.len, buffer)
       IN  /\ buffer' = r.buffer
           /\ rx' = r.rx
    /\ ret' = TRUE
    /\ lastRead' = "data"
    /\ pc' = "idle"
    /\ frame' = NoFrame
    /\ pending' = <<>>
    /\ LeaveLoop
    /\ UNCHANGED <<build, handlers, adc, latest, timeoutTime, timeoutFlag, dev, call, calls,
                   prev, obs>>

\* readRegisters finds its deadline passed while too little is available.
ReadRegistersTimeout ==
    /\ pc = "poll"
    /\ frame.fn = "readRegisters"
    /\ ReadRegistersWaits(WireAvailable(rx), frame.need)
    /\ DeadlinePassed(frame.abortTime, now)
    /\ timeoutFlag' = TRUE
    /\ obs' = OnTimeout(obs)
    /\ ret' = FALSE
    /\ lastRead' = "timeout"
    /\ pc' = "idle"
    /\ frame' = NoFrame
    /\ pending' = <<>>
    /\ LeaveLoop
    /\ UNCHANGED <<build, handlers, adc, latest, timeoutTime, dev, call, calls, prev, buffer,
                   rx>>

\* A call that is none of the register operations: it leaves the bus alone
\* and ends the record of the operation before it.
Plain(fn) ==
    /\ pc = "idle"
    /\ call' = [fn |-> fn, reg |-> 0, arg |-> 0, dev0 |-> <<>>]
    /\ prev' = NoCall
    /\ obs' = NewObs
    /\ buffer' = <<>>
    /\ UNCHANGED <<build, adc, latest, clock, timeoutFlag, rx, pending, dev, pc,
                   frame, calls, ret, lastRead>>

\* void attachTimeoutHandler(void (*)(void))
AttachTimeoutHandler ==
    /\ Plain("attachTimeoutHandler")
    /\ ~timeOutHandler
    /\ timeOutHandler' = TRUE
    /\ UNCHANGED <<errorHandler, timeoutTime>>

\* void attachErrorHandler(void (*)(uint8_t))
AttachErrorHandler ==
    /\ Plain("attachErrorHandler")
    /\ ~errorHandler
    /\ errorHandler' = TRUE
    /\ UNCHANGED <<timeOutHandler, timeoutTime>>

\* ------------------------------------------------------------------------
\* The environment while a read polls
\* ------------------------------------------------------------------------
\* Advances of millis() between two evaluations of the loop condition.
TickSteps ==
    {1, DefaultTimeout}

\* Time passes between two turns of the loop.  A turn that finds the
\* deadline passed returns, and the bytes the device sends at all arrive
\* before the clock is seen to move.
Tick ==
    /\ pc = "poll"
    /\ Waiting
    /\ pending = <<>>
    /\ ~DeadlinePassed(frame.abortTime, now)
    /\ ticks < MaxTicks
    /\ \E step \in TickSteps :
        /\ now' = Add(now, U(step, 4))
        /\ elapsed' = elapsed + step
    /\ ticks' = ticks + 1
    /\ UNCHANGED <<build, handlers, adc, latest, timeoutTime, timeoutFlag, rx,
                   pending, dev, pc, frame, call, calls, ret, buffer, obs, prev,
                   lastRead>>

\* The bytes the device delivers arrive in the receive buffer.
Deliver ==
    /\ pc = "poll"
    /\ Waiting
    /\ pending # <<>>
    /\ rx' = rx \o pending
    /\ pending' = <<>>
    /\ UNCHANGED <<build, handlers, adc, latest, clock, timeoutTime, timeoutFlag, dev,
                   pc, frame, call, calls, ret, buffer, obs, prev, lastRead>>

\* ------------------------------------------------------------------------
\* ADS1x15: operations
\* ------------------------------------------------------------------------
\* Words the converter may hold in its conversion register, as the bytes it
\* sends: 0x0000, 0x1234, 0x7FF0, 0x8000, 0xFFF0, 0xFFFF.
ConversionWords ==
    {<<0, 0>>, <<18, 52>>, <<127, 240>>, <<128, 0>>, <<255, 240>>,
     <<255, 255>>}

\* analogRead(mux) up to the polling loop of its readRegister: the mirror is
\* updated and written to the config register, the conversion delay is
\* waited, and the conversion register is read.  The converter, when it has
\* taken the config word, holds a new conversion.
BeginAnalogRead(fn, mux) ==
    \E status \in AckOrNack, c \in ConversionWords :
        LET config == ConfigForRead(configRegister, mux)
            r == writeRegister(NewObs, dev, CONFIG_REG, config, status)
            d == IF status = 0
                 THEN [r.dev EXCEPT !.reg[CONVERSION_REG] = c]
                 ELSE r.dev
            o == [r.obs EXCEPT !.log = Append(@, DelayEvent(conversionDelay))]
        IN  /\ Enter(fn, CONVERSION_REG, mux, dev.reg[CONVERSION_REG])
            /\ configRegister' = config
            /\ BeginRead(o, d, "readRegister", fn, CONVERSION_REG, W, W)
            /\ buffer' = <<>>
            /\ UNCHANGED <<build, handlers, conversionDelay, latest,
                           timeoutTime, ret, lastRead>>

\* int16_t analogRead(ADS1x15_MUX_t mux)
AnalogReadMux ==
    \E mux \in MuxValues : BeginAnalogRead("analogRead", mux)

\* uint16_t analogRead(uint8_t ch) for ch in 0..3
AnalogReadChannel ==
    \E ch \in 0..3 : BeginAnalogRead("analogReadCh", SE(ch))

\* uint16_t analogRead(uint8_t ch) for any other ch
AnalogReadNoChannel ==
    /\ Enter("analogReadCh", CONVERSION_REG, 0, dev.reg[CONVERSION_REG])
    /\ ret' = 0
    /\ obs' = NewObs
    /\ buffer' = <<>>
    /\ UNCHANGED <<build, handlers, adc, latest, clock, timeoutTime, timeoutFlag, rx,
                   pending, dev, pc, frame, lastRead>>

\* ADS1x15_GAIN_t: GAIN_23 .. GAIN_16 are 0..5 shifted to bits 9..11.
GainValues ==
    {g * 512 : g \in 0..5}

\* ADS1115_DR_t is 0..7 and ADS1015_DR_t is 0..6, shifted to bits 5..7.
DataRates(chipName) ==
    {r * 32 : r \in 0..(IF chipName = "ADS1015" THEN 6 ELSE 7)}

\* ADS1x15_COMP_MODE_t, ADS1x15_COMP_POL_t, ADS1x15_COMP_LAT_t
CompModes ==
    {0, ADS1x15_COMP_MODE_MASK}

CompPols ==
    {0, ADS1x15_COMP_POL_MASK}

CompLats ==
    {0, ADS1x15_COMP_LAT_MASK}

\* The conversionDelay the chain of ifs in setDataRate assigns.
DelayForRate(chipName, dataRate) ==
    IF chipName = "ADS1015"
    THEN CASE dataRate = 0 -> 8213
           [] dataRate = 32 -> 4400
           [] dataRate = 64 -> 2441
           [] dataRate = 96 -> 1487
           [] dataRate = 128 -> 1025
           [] dataRate = 160 -> 817
           [] dataRate = 192 -> 703
           [] OTHER -> conversionDelay
    ELSE CASE dataRate = 0 -> 125400
           [] dataRate = 32 -> 62900
           [] dataRate = 64 -> 31650
           [] dataRate = 96 -> 16025
           [] dataRate = 128 -> 8213
           [] dataRate = 160 -> 4400
           [] dataRate = 192 -> 2505
           [] dataRate = 224 -> 1563
           [] OTHER -> conversionDelay

\* A variant of the two assignments of a setter that leaves out the mask.
SetFieldUnmasked(config, mask, value) ==
    Or(config, U(value, 2))

\* configRegister after "configRegister &= ~mask; configRegister |= value;".
SetField(config, mask, value) ==
    Or(And(config, Not(U(mask, 2))), U(value, 2))

\* What the setters share: the two assignments to the mirror, and nothing
\* on the bus.
Setter(fn, field, mask, value) ==
    /\ Enter(fn, CONFIG_REG, value, <<>>)
    /\ configRegister' = SetField(configRegister, mask, value)
    /\ latest' = [latest EXCEPT ![field] = value]
    /\ obs' = NewObs
    /\ buffer' = <<>>
    /\ UNCHANGED <<build, handlers, clock, timeoutTime, timeoutFlag, rx,
                   pending, dev, pc, frame, ret, lastRead>>

\* void ADS1x15::setGain(ADS1x15_GAIN_t currentGain)
SetGain ==
    \E g \in GainValues :
        /\ Setter("setGain", "gain", ADS1x15_GAIN_MASK, g)
        /\ UNCHANGED conversionDelay

\* void ADS1115::setDataRate(ADS1115_DR_t), void ADS1015::setDataRate(ADS1015_DR_t)
SetDataRate ==
    \E r \in DataRates(chip) :
        /\ Setter("setDataRate", "dataRate", ADS1x15_DR_MASK, r)
        /\ conversionDelay' = DelayForRate(chip, r)

\* void ADS1x15::setComparatorMode(ADS1x15_COMP_MODE_t compCfg)
SetComparatorMode ==
    \E c \in CompModes :
        /\ Setter("setComparatorMode", "compMode", ADS1x15_COMP_MODE_MASK, c)
        /\ UNCHANGED conversionDelay

\* void ADS1x15::setComparatorPolarity(ADS1x15_COMP_POL_t compCfg)
SetComparatorPolarity ==
    \E c \in CompPols :
        /\ Setter("setComparatorPolarity", "compPol", ADS1x15_COMP_POL_MASK, c)
        /\ UNCHANGED conversionDelay

\* void ADS1x15::setComparatorLatch(ADS1x15_COMP_LAT_t compCfg)
SetComparatorLatch ==
    \E c \in CompLats :
        /\ Setter("setComparatorLatch", "compLat", ADS1x15_COMP_LAT_MASK, c)
        /\ UNCHANGED conversionDelay

\* ------------------------------------------------------------------------
\* Specifications
\* ------------------------------------------------------------------------
\* The object after construction: no handlers, the flag clear, the default
\* budget, the default config word.
InitObject ==
    /\ timeoutTime = U(DefaultTimeout, 4)
    /\ timeoutFlag = FALSE
    /\ timeOutHandler = FALSE
    /\ errorHandler = FALSE
    /\ configRegister = U(defaultConfig, 2)
    /\ conversionDelay = CASE chip = "ADS1015" -> Delay1015
                           [] chip = "ADS1115" -> Delay1115
                           [] OTHER -> 0
    /\ latest = [gain |-> GAIN_2, dataRate |-> DefaultDataRate,
                 compMode |-> 0, compPol |-> 0, compLat |-> 0]

InitCalls ==
    /\ now = epoch
    /\ rx = <<>>
    /\ pending = <<>>
    /\ pc = "idle"
    /\ frame = NoFrame
    /\ call = NoCall
    /\ ret = FALSE
    /\ buffer = <<>>
    /\ obs = NewObs
    /\ prev = NoCall
    /\ lastRead = "none"
    /\ elapsed = 0
    /\ ticks = 0
    /\ calls = 0

\* The device: its second register zero, its first one of the sample words.
InitDevice ==
    \E x \in DeviceWords(W) :
        dev = [reg |-> [r \in Regs |->
                          IF r = CONVERSION_REG THEN x ELSE [i \in 1..W |-> 0]],
               ptr |-> 0]

\* The engine with all five register operations.
Init ==
    /\ W \in Widths
    /\ IntBits = 16
    /\ chip = "wireUtil"
    /\ epoch = U(0, 4)
    /\ InitObject
    /\ InitCalls
    /\ InitDevice

Next ==
    \/ WriteRegister
    \/ WriteRegisters
    \/ ReadRegisterCall
    \/ ReadRegistersCall
    \/ SetRegisterBitCall
    \/ ReadRegisterData
    \/ ReadRegisterTimeout
    \/ ReadRegistersData
    \/ ReadRegistersTimeout
    \/ Tick
    \/ Deliver

Spec ==
    Init /\ [][Next]_vars

\* The two writes, with and without handlers, among reads of a register
\* that may time out.
NextWrite ==
    \/ WriteRegister
    \/ WriteRegisters
    \/ AttachErrorHandler
    \/ AttachTimeoutHandler
    \/ ReadRegisterCall
    \/ ReadRegisterData
    \/ ReadRegisterTimeout
    \/ Tick
    \/ Deliver

SpecWrite ==
    Init /\ [][NextWrite]_vars

\* The two reads, with and without handlers.
NextRead ==
    \/ ReadRegisterCall
    \/ ReadRegistersCall
    \/ ReadRegisterData
    \/ ReadRegisterTimeout
    \/ ReadRegistersData
    \/ ReadRegistersTimeout
    \/ AttachTimeoutHandler
    \/ AttachErrorHandler
    \/ Tick
    \/ Deliver

SpecRead ==
    Init /\ [][NextRead]_vars

\* The two reads under every budget and starting clock of interest: far
\* from the top of the counter, and where the deadline lands on the
\* maximum or wraps.
StartClocks ==
    {U(0, 4),
     Not(U(DefaultTimeout, 4)),
     Add(Not(U(DefaultTimeout, 4)), U(1, 4)),
     Not(U(0, 4))}

Budgets ==
    {0, 1, DefaultTimeout}

InitClock ==
    /\ W \in {1, 2}
    /\ IntBits = 16
    /\ chip = "wireUtil"
    /\ epoch \in StartClocks
    /\ InitObject
    /\ InitCalls
    /\ InitDevice

\* The caller assigns the public member timeoutTime between calls.
SetTimeoutTime ==
    /\ Plain("timeoutTime")
    /\ \E b \in Budgets : timeoutTime' = U(b, 4)
    /\ UNCHANGED handlers

NextClock ==
    \/ SetTimeoutTime
    \/ ReadRegisterCall
    \/ ReadRegistersCall
    \/ ReadRegisterData
    \/ ReadRegisterTimeout
    \/ ReadRegistersData
    \/ ReadRegistersTimeout
    \/ Tick
    \/ Deliver

SpecClock ==
    InitClock /\ [][NextClock]_vars

\* A write followed by reads of single registers.
NextRoundTrip ==
    \/ WriteRegister
    \/ ReadRegisterCall
    \/ ReadRegisterData
    \/ ReadRegisterTimeout
    \/ Tick
    \/ Deliver

SpecRoundTrip ==
    Init /\ [][NextRoundTrip]_vars

\* setRegisterBit on both widths of int.
InitBit ==
    /\ W \in Widths
    /\ IntBits \in {16, 32}
    /\ chip = "wireUtil"
    /\ epoch = U(0, 4)
    /\ InitObject
    /\ InitCalls
    /\ InitDevice

NextBit ==
    \/ SetRegisterBitCall
    \/ ReadRegisterData
    \/ ReadRegisterTimeout
    \/ Tick
    \/ Deliver

SpecBit ==
    InitBit /\ [][NextBit]_vars

\* The two converters.
InitADC ==
    /\ W = 2
    /\ IntBits = 16
    /\ chip \in {"ADS1015", "ADS1115"}
    /\ epoch = U(0, 4)
    /\ InitObject
    /\ InitCalls
    /\ InitDevice

NextADC ==
    \/ AnalogReadMux
    \/ AnalogReadChannel
    \/ AnalogReadNoChannel
    \/ ReadRegisterData
    \/ ReadRegisterTimeout
    \/ Tick
    \/ Deliver

SpecADC ==
    InitADC /\ [][NextADC]_vars

\* The setters of the config mirror among conversions.
NextConfig ==
    \/ SetGain
    \/ SetDataRate
    \/ SetComparatorMode
    \/ SetComparatorPolarity
    \/ SetComparatorLatch
    \/ AnalogReadMux
    \/ ReadRegisterData
    \/ ReadRegisterTimeout
    \/ Tick
    \/ Deliver

SpecConfig ==
    InitADC /\ [][NextConfig]_vars

\* ------------------------------------------------------------------------
\* Properties
\* ------------------------------------------------------------------------
\* The bytes of a word, most significant first.
BigEndian(v) ==
    [i \in 1..Len(v) |-> v[Len(v) + 1 - i]]

\* The handler invocations of a call that took n timeout branches.
HandlerCalls(n) ==
    IF timeOutHandler THEN n ELSE 0

\* A readRegister that directly follows a writeRegister to the same register
\* that returned true, has returned; the address was acknowledged and the
\* device sent back the whole word.
C1_Case ==
    /\ pc = "idle"
    /\ call.fn = "readRegister"
    /\ prev.fn = "writeRegister"
    /\ Clean(obs)
    /\ obs.sent = W

\* C1: for the widths 1, 2 and 4 and a device that returns the bytes last
\* written, readRegister(reg) after a writeRegister(reg, v) that returned
\* true returns exactly v.
C1_RoundTrip ==
    C1_Case => ret = prev.arg

C1_Witness ==
    /\ C1_Case
    /\ W = 4
    /\ prev.arg = U(Canonical(4), 4)
    /\ ret = U(Canonical(4), 4)

\* A writeRegister of a 2-byte or 4-byte word has returned.
C2_Case ==
    /\ pc = "idle"
    /\ call.fn = "writeRegister"
    /\ W \in {2, 4}

\* C2: writeRegister of a 2-byte or 4-byte word makes exactly one write
\* transaction, and nothing else on the bus: the register address, then the
\* bytes of the value most significant first (0x1234 as 0x12 0x34,
\* 0x12345678 as 0x12 0x34 0x56 0x78), ended with a stop.
C2_BigEndianWrite ==
    C2_Case =>
        /\ Len(obs.log) = 1
        /\ IsTx(obs.log[1])
        /\ obs.log[1].stop
        /\ obs.log[1].bytes = <<call.reg>> \o BigEndian(call.arg)
        /\ call.arg = U(4660, 2) => obs.log[1].bytes = <<call.reg, 18, 52>>
        /\ call.arg = U(305419896, 4)
              => obs.log[1].bytes = <<call.reg, 18, 52, 86, 120>>

C2_Witness ==
    /\ C2_Case
    /\ W = 4
    /\ call.reg = CONFIG_REG
    /\ obs.log[1].status = 0
    /\ obs.log[1].bytes = <<CONFIG_REG, 18, 52, 86, 120>>

\* A readRegisters of at least one element has returned, and the device
\* sent nothing for it.
C3_Case ==
    /\ pc = "idle"
    /\ call.fn = "readRegisters"
    /\ call.arg.len >= 1
    /\ obs.sent = 0

\* C3: when no data ever becomes available, readRegisters with a count of
\* at least 1 returns false with the Timeout Flag true and every slot of
\* the array zero whatever it held, having called the timeout handler once
\* if one is attached, and the error handler not at all.
C3_NoDataReadRegisters ==
    C3_Case =>
        /\ ret = FALSE
        /\ timeoutFlag
        /\ Len(buffer) = call.arg.len
        /\ \A i \in 1..Len(buffer) : buffer[i] = U(0, W)
        /\ obs.timeoutCalls = HandlerCalls(1)
        /\ obs.errorCalls = <<>>

C3_Witness ==
    /\ C3_Case
    /\ call.arg.len = MaxLen
    /\ call.arg.before = AllOnes(W)
    /\ timeOutHandler
    /\ errorHandler
    /\ obs.timeoutCalls = 1
    /\ buffer = [i \in 1..MaxLen |-> U(0, W)]

\* The step that is one call of writeRegister.
C4_Step ==
    /\ pc = "idle"
    /\ pc' = "idle"
    /\ calls' = calls + 1
    /\ call'.fn = "writeRegister"

\* C4: writeRegister returns true exactly when endTransmission yields 0;
\* on another status it returns false with or without an error handler,
\* calls an attached error handler once with that status, and in no case
\* calls the timeout handler or changes the Timeout Flag.
C4_WriteStatus ==
    [][C4_Step =>
        LET status == obs'.log[1].status
        IN  /\ (ret' = TRUE) <=> (status = 0)
            /\ status # 0 => ret' = FALSE
            /\ obs'.errorCalls =
                   IF status # 0 /\ errorHandler THEN <<status>> ELSE <<>>
            /\ obs'.timeoutCalls = 0
            /\ timeoutFlag' = timeoutFlag]_vars

C4_Witness ==
    /\ pc = "idle"
    /\ call.fn = "writeRegister"
    /\ ret = FALSE
    /\ obs.log[1].status = 3
    /\ obs.errorCalls = <<3>>
    /\ timeOutHandler
    /\ timeoutFlag

\* A setRegisterBit(reg, bit, false) that directly follows a
\* setRegisterBit(reg, bit, true) has returned true; in both calls every
\* transaction was acknowledged, the whole word was sent, no read timed out.
C5_Case ==
    /\ pc = "idle"
    /\ call.fn = "setRegisterBit"
    /\ prev.fn = "setRegisterBit"
    /\ Clean(obs)
    /\ obs.sent = W
    /\ ret = TRUE

\* C5: for every register value v and every bit of the word,
\* setRegisterBit(reg, bit, true) followed by setRegisterBit(reg, bit, false)
\* without timeout or NACK leaves the device register equal to v.
C5_ToggleRestores ==
    C5_Case => dev.reg[call.reg] = prev.dev0

\* The number a code of the given number of bits stands for in two's
\* complement.
TwosComplement(code, bits) ==
    IF code >= 2 ^ (bits - 1) THEN code - 2 ^ bits ELSE code

\* The code the converter holds: the word in its conversion register,
\* shifted right by 4 on the 12-bit chip.
DeviceCode ==
    LET word == 256 * dev.reg[CONVERSION_REG][1] + dev.reg[CONVERSION_REG][2]
    IN  IF chip = "ADS1015" THEN word \div 16 ELSE word

\* An analogRead, in either form, has returned after a conversion whose
\* transactions were all acknowledged and whose word was sent whole.
C6_Case ==
    /\ pc = "idle"
    /\ call.fn \in {"analogRead", "analogReadCh"}
    /\ obs.log # <<>>
    /\ Clean(obs)
    /\ obs.sent = W

\* C6: on both chips and in both forms, analogRead returns the two's
\* complement value of the 12-bit (ADS1015) or 16-bit (ADS1115) code of the
\* conversion register: a negative number whenever the code is above the
\* positive full scale.
C6_TwosComplement ==
    C6_Case =>
        ret = TwosComplement(DeviceCode, IF chip = "ADS1015" THEN 12 ELSE 16)

\* C7: between calls the Timeout Flag is true exactly when the most recent
\* read attempt, that of setRegisterBit included, timed out; a read that is
\* polling has reset it; writes leave it as it is.
C7_FlagTracksLastRead ==
    /\ pc = "idle" => (timeoutFlag <=> lastRead = "timeout")
    /\ pc = "poll" => ~timeoutFlag

C7_Witness ==
    /\ pc = "idle"
    /\ call.fn = "writeRegisters"
    /\ lastRead = "timeout"
    /\ timeoutFlag

\* A readRegister of a 2-byte or 4-byte word has returned.
C8_Case ==
    /\ pc = "idle"
    /\ call.fn = "readRegister"
    /\ W \in {2, 4}

\* C8: readRegister of a 2-byte or 4-byte word returns a word only when all
\* its bytes were available; with fewer, one or more but not all included,
\* it ends with the Timeout Flag true, the timeout handler called if one is
\* attached, and zero returned.
C8_WholeWordOrTimeout ==
    (C8_Case /\ obs.sent < W) =>
        /\ timeoutFlag
        /\ ret = U(0, W)
        /\ obs.timeoutCalls = HandlerCalls(1)

\* The i-th group of W bytes the device sends from its register pointer on.
Group(i) ==
    SubSeq(DevStream(dev, i * W), (i - 1) * W + 1, i * W)

\* C9: readRegisters asks the bus for exactly count * sizeof(DATATYPE)
\* bytes, for the widths 1, 2 and 4 and every count; and when that many
\* bytes are sent it returns true with slot i holding the i-th group of
\* bytes, most significant first.
C9_RequestsCountTimesWidth ==
    call.fn = "readRegisters" =>
        /\ Len(Requests(obs)) = 1
        /\ Requests(obs)[1].n = call.arg.len * W
        /\ (pc = "idle" /\ Clean(obs) /\ obs.sent = call.arg.len * W) =>
              /\ ret = TRUE
              /\ Len(buffer) = call.arg.len
              /\ \A i \in 1..Len(buffer) : BigEndian(buffer[i]) = Group(i)

\* A read is in its loop and the device sends nothing for it.
C10_Case ==
    /\ pc = "poll"
    /\ Waiting
    /\ obs.sent = 0

\* C10: when no data becomes available, a read takes its timeout branch at
\* the first turn of the loop at which more than timeoutTime milliseconds
\* have passed since the deadline was computed, and at no earlier one,
\* whatever millis() showed at the start.
C10_TimeoutAfterBudget ==
    C10_Case =>
        (DeadlinePassed(frame.abortTime, now) <=> elapsed > Val(timeoutTime))

\* The part of the number n in the bits lo .. lo + width - 1.
Field(n, lo, width) ==
    ((n \div (2 ^ lo)) % (2 ^ width)) * (2 ^ lo)

\* The lowest bit and the width of the field each setter owns.
FieldPlace(fn) ==
    CASE fn = "setGain" -> <<9, 3>>
      [] fn = "setDataRate" -> <<5, 3>>
      [] fn = "setComparatorMode" -> <<4, 1>>
      [] fn = "setComparatorPolarity" -> <<3, 1>>
      [] fn = "setComparatorLatch" -> <<2, 1>>

\* The step that is one call of a setter.
C11_SetterStep ==
    /\ pc = "idle"
    /\ calls' = calls + 1
    /\ call'.fn \in {"setGain", "setDataRate", "setComparatorMode",
                     "setComparatorPolarity", "setComparatorLatch"}

\* A setter leaves the bus and the device alone and changes no bit of the
\* mirror outside its field, which takes the value given.
C11_SetterEffect ==
    LET place == FieldPlace(call'.fn)
        old == Val(configRegister)
        new == Val(configRegister')
    IN  /\ obs'.log = <<>>
        /\ dev' = dev
        /\ rx' = rx
        /\ pending' = pending
        /\ pc' = "idle"
        /\ Field(new, place[1], place[2]) = call'.arg
        /\ new - Field(new, place[1], place[2])
               = old - Field(old, place[1], place[2])

\* The config word an analogRead(mux) has to write: the one-shot trigger,
\* the mux asked for, the latest gain, data rate and comparator settings,
\* and the two fields no setter touches as defaultConfig has them (single
\* shot mode, bit 8, and the comparator queue, bits 0..1).
C11_Word ==
    ADS1x15_OS + call.arg + latest.gain + latest.dataRate + latest.compMode
        + latest.compPol + latest.compLat
        + Field(defaultConfig, 8, 1) + Field(defaultConfig, 0, 2)

\* An analogRead(mux) is past its bus transactions: it polls or has
\* returned.
C11_Case ==
    call.fn = "analogRead"

\* What an analogRead(mux) does on the bus, in order: one write transaction
\* of the config register holding C11_Word, the conversion delay, and one
\* read of the conversion register (its address without a stop, then a
\* request for two bytes).
C11_ReadEffect ==
    C11_Case =>
        /\ Len(obs.log) = 4
        /\ IsTx(obs.log[1])
        /\ obs.log[1].stop
        /\ obs.log[1].bytes = <<CONFIG_REG, C11_Word \div 256, C11_Word % 256>>
        /\ Val(configRegister) = C11_Word
        /\ obs.log[2] = DelayEvent(conversionDelay)
        /\ IsTx(obs.log[3])
        /\ obs.log[3].bytes = <<CONVERSION_REG>>
        /\ ~obs.log[3].stop
        /\ obs.log[4] = RequestEvent(2)

\* C11: in any sequence of setGain, setDataRate, setComparatorMode,
\* setComparatorPolarity, setComparatorLatch and analogRead(mux) calls, a
\* setter causes no bus traffic and changes only its own field of the
\* mirror, and an analogRead makes, in this order, exactly one write of the
\* config register with the latest value of every field, the mux asked for
\* and bit 15 set, then the conversion delay, then exactly one read of the
\* conversion register.
C11_MirrorThenConversion ==
    /\ [][C11_SetterStep => C11_SetterEffect]_vars
    /\ []C11_ReadEffect

\* analogRead(SE3) after setGain(GAIN_16) wrote 0xFB83.
C11_Witness ==
    /\ pc = "idle"
    /\ C11_Case
    /\ call.arg = SE(3)
    /\ latest.gain = 2560
    /\ Clean(obs)
    /\ obs.log[1].bytes = <<CONFIG_REG, 251, 131>>

====
